---- MODULE Spec2Model ----
(***************************************************************************)
(* Model of utf8.c: the byte classifier validate_utf8_char, the validator  *)
(* validate_utf8, the strict constructor make_utf8_string, the lossy       *)
(* constructor make_utf8_string_lossy, the boundary predicate, the         *)
(* character iterator, utf8_char_count, nth_utf8_char, slice_utf8_string,  *)
(* unicode_code_point, as_utf8_string and free_owned_utf8_string.          *)
(*                                                                         *)
(* A C string is modelled by its bytes before the terminator (values       *)
(* 1..255); the block of memory that holds it is those bytes followed by   *)
(* one 0 byte.  A pointer is a record [base, off]: the block it points     *)
(* into and the byte offset inside that block.  A read outside a block     *)
(* is an index outside a sequence, which TLC reports as an error: no       *)
(* formula below is ever established by way of such a read.                *)
(***************************************************************************)
EXTENDS Integers, Sequences, FiniteSets

\* ------------------------------------------------------------------ bounds

\* Longest input, counted in pieces (see Pieces).
MaxPieces == 2

\* Largest char_index passed to nth_utf8_char.
MaxIndex == 3

\* Width of size_t in bits.  The arithmetic of slice_utf8_string is done
\* modulo 2^SizeBits; every input is shorter than 2^SizeBits bytes.
SizeBits == 8

\* Largest small start_byte_index and byte_len passed to slice_utf8_string.
MaxSliceArg == 5

\* Largest number of free_owned_utf8_string calls made on one owned string.
MaxFreeCalls == 2

\* ------------------------------------------------------------------ inputs

\* Single bytes of every class and at every class border.
SingleBytes ==
    { <<\H48>>, <<\H7F>>, <<\H80>>, <<\HBF>>, <<\HC0>>, <<\HC1>>, <<\HC2>>,
      <<\HE0>>, <<\HED>>, <<\HF0>>, <<\HF8>>, <<\HFF>> }

\* First and last encodings of each length, and encodings the tests use.
AcceptedEncodings ==
    { <<\HC2, \H80>>, <<\HDF, \HBF>>,
      <<\HE0, \HA0, \H80>>, <<\HEF, \HBF, \HBF>>, <<\HED, \H9F, \HBF>>,
      <<\HE3, \H81, \H93>>,
      <<\HF0, \H90, \H80, \H80>>, <<\HF7, \HBF, \HBF, \HBF>>,
      <<\HF0, \H9F, \H98, \H81>> }

\* Overlong encodings, UTF-16 surrogates and truncated sequences.
RejectedSequences ==
    { <<\HC1, \HBF>>, <<\HC0, \H80>>,
      <<\HE0, \H9F, \HBF>>, <<\HE0, \H80, \H80>>,
      <<\HF0, \H8F, \HBF, \HBF>>, <<\HF0, \H80, \H80, \H80>>,
      <<\HED, \HA0, \H80>>, <<\HED, \HBF, \HBF>>,
      <<\HE0, \HA0>>, <<\HF0, \H90, \H80>> }

Pieces == SingleBytes \cup AcceptedEncodings \cup RejectedSequences

RECURSIVE ConcatsUpTo(_)
ConcatsUpTo(n) ==
    IF n = 0 THEN { <<>> }
    ELSE LET prev == ConcatsUpTo(n - 1)
         IN  prev \cup { s \o p : s \in prev, p \in Pieces }

Inputs == ConcatsUpTo(MaxPieces)

\* ------------------------------------------------------------------ state

VARIABLES
    input,          \* bytes of the caller's C string, terminator not included
    str,            \* the const char* the caller passes: NULL or the start of input
    validity,       \* utf8_validity returned by the last validate_utf8 call
    boundary,       \* last is_utf8_char_boundary call: position and result
    ustr,           \* utf8_string the caller holds
    iter,           \* utf8_char_iter the caller holds
    ch,             \* utf8_char returned by the last next_utf8_char call
    fault,          \* TRUE once a NULL pointer was dereferenced
    pc,             \* make_utf8_string_lossy: "idle", "loop" or "done"
    len,            \* make_utf8_string_lossy: local len
    worst_case_size,\* make_utf8_string_lossy: local worst_case_size, the size of the block
    offset,         \* make_utf8_string_lossy: local offset
    buffer_offset,  \* make_utf8_string_lossy: local buffer_offset
    char_validity,  \* make_utf8_string_lossy: local char_validity
    buffer,         \* the bytes written so far into the malloc'd block
    owned_ustr,     \* owned_utf8_string returned by make_utf8_string_lossy
    count,          \* last utf8_char_count call: the size_t returned
    nth,            \* last nth_utf8_char call: index and utf8_char returned
    slice,          \* last slice_utf8_string call: arguments and utf8_string returned
    code_point,     \* last unicode_code_point call: the uint32_t returned
    heap,           \* the malloc'd block: "none", "failed", "live" or "freed"
    releases,       \* number of times free() was applied to the block
    free_calls,     \* number of free_owned_utf8_string calls made
    reads           \* offsets of the caller's string read by the last validate_utf8,
                    \* make_utf8_string or make_utf8_string_lossy call

vars == << input, str, validity, boundary, ustr, iter, ch, fault,
           pc, len, worst_case_size, offset, buffer_offset, char_validity, buffer,
           owned_ustr,
           count, nth, slice, code_point, heap, releases, free_calls, reads >>

None == [none |-> TRUE]

\* ------------------------------------------------------------------ memory

NULL == [base |-> "null", off |-> 0]

PtrAdd(p, k) == [base |-> p.base, off |-> p.off + k]

\* The bytes of the block a pointer points into.
Block(base) ==
    IF base = "input" THEN input \o <<0>> ELSE buffer

\* str[k] for a pointer str.
CharAt(p, k) == Block(p.base)[p.off + k + 1]

RECURSIVE BitAnd(_, _)
BitAnd(a, b) ==
    IF a = 0 \/ b = 0 THEN 0
    ELSE (a % 2) * (b % 2) + 2 * BitAnd(a \div 2, b \div 2)

RECURSIVE strlen_from(_, _)
strlen_from(p, n) ==
    IF CharAt(p, n) = 0 THEN n ELSE strlen_from(p, n + 1)

strlen(p) == strlen_from(p, 0)

SIZE_MAX == 2 ^ SizeBits - 1

\* a + b and a - b in size_t
SizeAdd(a, b) == (a + b) % (SIZE_MAX + 1)

SizeSub(a, b) == (a - b) % (SIZE_MAX + 1)

\* a * b in size_t
SizeMul(a, b) == (a * b) % (SIZE_MAX + 1)

\* ------------------------------------------------------------------ classifier

Invalid(off) == [valid |-> FALSE, next_offset |-> off]

Valid(off) == [valid |-> TRUE, next_offset |-> off]

\* 0xxxxxxx
OneByteForm(s, off) ==
    BitAnd(CharAt(s, off), \b10000000) = \b00000000

\* 110xxxxx 10xxxxxx
TwoByteForm(s, off) ==
    /\ BitAnd(CharAt(s, off + 0), \b11100000) = \b11000000
    /\ BitAnd(CharAt(s, off + 1), \b11000000) = \b10000000

\* Seeded fault: the overlong bound compared with <= instead of <.
TwoByteOverlongInclusive(s, off) ==
    BitAnd(CharAt(s, off), \b00011111) <= \b00000010

TwoByteOverlong(s, off) ==
    BitAnd(CharAt(s, off), \b00011111) < \b00000010

\* 1110xxxx 10xxxxxx 10xxxxxx
ThreeByteForm(s, off) ==
    /\ BitAnd(CharAt(s, off + 0), \b11110000) = \b11100000
    /\ BitAnd(CharAt(s, off + 1), \b11000000) = \b10000000
    /\ BitAnd(CharAt(s, off + 2), \b11000000) = \b10000000

\* Seeded fault: the three-byte check made with the four-byte bound.
ThreeByteOverlongFourByteBound(s, off) ==
    /\ BitAnd(CharAt(s, off + 0), \b00001111) = \b00000000
    /\ BitAnd(CharAt(s, off + 1), \b00111111) < \b00010000

ThreeByteOverlong(s, off) ==
    /\ BitAnd(CharAt(s, off + 0), \b00001111) = \b00000000
    /\ BitAnd(CharAt(s, off + 1), \b00111111) < \b00100000

\* Seeded fault: the lower end of the surrogate range compared with > instead of >=.
SurrogateExclusive(s, off) ==
    /\ CharAt(s, off + 0) = \b11101101
    /\ CharAt(s, off + 1) > \b10100000
    /\ CharAt(s, off + 1) <= \b10111111

\* U+D800 to U+DFFF: ED A0 80 to ED BF BF
Surrogate(s, off) ==
    /\ CharAt(s, off + 0) = \b11101101
    /\ CharAt(s, off + 1) >= \b10100000
    /\ CharAt(s, off + 1) <= \b10111111

\* Seeded fault: the third continuation byte is tested twice, the fourth never.
FourByteFormThirdTwice(s, off) ==
    /\ BitAnd(CharAt(s, off + 0), \b11111000) = \b11110000
    /\ BitAnd(CharAt(s, off + 1), \b11000000) = \b10000000
    /\ BitAnd(CharAt(s, off + 2), \b11000000) = \b10000000
    /\ BitAnd(CharAt(s, off + 2), \b11000000) = \b10000000

\* 11110xxx 10xxxxxx 10xxxxxx 10xxxxxx
FourByteForm(s, off) ==
    /\ BitAnd(CharAt(s, off + 0), \b11111000) = \b11110000
    /\ BitAnd(CharAt(s, off + 1), \b11000000) = \b10000000
    /\ BitAnd(CharAt(s, off + 2), \b11000000) = \b10000000
    /\ BitAnd(CharAt(s, off + 3), \b11000000) = \b10000000

\* Seeded fault: the overlong check of the four-byte form is left out.
FourByteOverlongUnchecked(s, off) == FALSE

FourByteOverlong(s, off) ==
    /\ BitAnd(CharAt(s, off + 0), \b00000111) = \b00000000
    /\ BitAnd(CharAt(s, off + 1), \b00111111) < \b00010000

validate_utf8_char(s, off) ==
    IF OneByteForm(s, off) THEN Valid(off + 1)
    ELSE IF TwoByteForm(s, off) THEN
        IF TwoByteOverlong(s, off) THEN Invalid(off) ELSE Valid(off + 2)
    ELSE IF ThreeByteForm(s, off) THEN
        IF ThreeByteOverlong(s, off) THEN Invalid(off)
        ELSE IF Surrogate(s, off) THEN Invalid(off)
        ELSE Valid(off + 3)
    ELSE IF FourByteForm(s, off) THEN
        IF FourByteOverlong(s, off) THEN Invalid(off) ELSE Valid(off + 4)
    ELSE Invalid(off)

\* ------------------------------------------------------------------ bytes read

\* The lead-byte test of the n-byte form, n in 2..4.
LeadTest(s, off, n) ==
    CASE n = 2 -> BitAnd(CharAt(s, off + 0), \b11100000) = \b11000000
      [] n = 3 -> BitAnd(CharAt(s, off + 0), \b11110000) = \b11100000
      [] n = 4 -> BitAnd(CharAt(s, off + 0), \b11111000) = \b11110000

\* Seeded fault: the continuation tests are all evaluated, no && cuts them short.
RECURSIVE continuation_reads_eager(_, _, _, _)
continuation_reads_eager(s, off, k, n) ==
    IF k >= n THEN { }
    ELSE { off + k } \cup continuation_reads_eager(s, off, k + 1, n)

\* Offsets read by the continuation tests k .. n-1 of the n-byte form: the
\* && chain evaluates test k + 1 only when test k held.
RECURSIVE continuation_reads(_, _, _, _)
continuation_reads(s, off, k, n) ==
    IF k >= n THEN { }
    ELSE { off + k } \cup
         (IF BitAnd(CharAt(s, off + k), \b11000000) = \b10000000
          THEN continuation_reads(s, off, k + 1, n)
          ELSE { })

\* Offsets read by the condition of the n-byte form.
form_reads(s, off, n) ==
    { off } \cup (IF LeadTest(s, off, n) THEN continuation_reads(s, off, 1, n) ELSE { })

\* Offsets read by validate_utf8_char(s, off).  The checks made inside a
\* form that matched read bytes its condition has read already.
char_reads(s, off) ==
    IF OneByteForm(s, off) THEN { off }
    ELSE IF TwoByteForm(s, off) THEN form_reads(s, off, 2)
    ELSE IF ThreeByteForm(s, off) THEN form_reads(s, off, 2) \cup form_reads(s, off, 3)
    ELSE form_reads(s, off, 2) \cup form_reads(s, off, 3) \cup form_reads(s, off, 4)

\* Offsets read by the while loop of validate_utf8 entered with offset = off.
RECURSIVE validate_loop_reads(_, _)
validate_loop_reads(s, off) ==
    { off } \cup
    (IF CharAt(s, off) # 0 THEN
        LET cv == validate_utf8_char(s, off)
        IN  char_reads(s, off) \cup
            (IF cv.valid THEN validate_loop_reads(s, cv.next_offset) ELSE { })
     ELSE { })

\* Offsets read by validate_utf8(s).
validate_utf8_reads(s) ==
    IF s = NULL THEN { } ELSE validate_loop_reads(s, 0)

\* Offsets read by strlen(s): every byte up to and including the terminator.
strlen_reads(s) == 0..strlen(s)

\* Offsets read by memcpy(_, s + from, n).
memcpy_reads(from, n) == from..(from + n - 1)

\* ------------------------------------------------------------------ validator

\* Seeded fault: a failure reports no progress at all.
RECURSIVE validate_loop_no_progress(_, _)
validate_loop_no_progress(s, off) ==
    IF CharAt(s, off) # 0 THEN
        LET cv == validate_utf8_char(s, off)
        IN  IF cv.valid THEN validate_loop_no_progress(s, cv.next_offset)
            ELSE [valid |-> FALSE, valid_upto |-> 0]
    ELSE [valid |-> TRUE, valid_upto |-> off]

\* The while loop of validate_utf8, entered with the local offset = off.
RECURSIVE validate_loop(_, _)
validate_loop(s, off) ==
    IF CharAt(s, off) # 0 THEN
        LET cv == validate_utf8_char(s, off)
        IN  IF cv.valid THEN validate_loop(s, cv.next_offset)
            ELSE [valid |-> FALSE, valid_upto |-> off]
    ELSE [valid |-> TRUE, valid_upto |-> off]

validate_utf8(s) ==
    IF s = NULL THEN [valid |-> FALSE, valid_upto |-> 0]
    ELSE validate_loop(s, 0)

\* The classifier calls the while loop of validate_utf8 makes from offset
\* off on, in order: the offset passed and the utf8_char_validity returned.
RECURSIVE validate_calls(_, _)
validate_calls(s, off) ==
    IF CharAt(s, off) # 0 THEN
        LET cv == validate_utf8_char(s, off)
        IN  << [offset |-> off, char_validity |-> cv] >> \o
            (IF cv.valid THEN validate_calls(s, cv.next_offset) ELSE << >>)
    ELSE << >>

\* Seeded fault: an invalid input yields a view of its valid prefix.
make_utf8_string_prefix(s) ==
    LET v == validate_utf8(s)
    IN  IF v.valid \/ v.valid_upto > 0 THEN [str |-> s, byte_len |-> v.valid_upto]
        ELSE [str |-> NULL, byte_len |-> 0]

make_utf8_string(s) ==
    LET v == validate_utf8(s)
    IN  IF v.valid THEN [str |-> s, byte_len |-> v.valid_upto]
        ELSE [str |-> NULL, byte_len |-> 0]

\* ------------------------------------------------------------------ boundary, iterator

\* Seeded fault: only three- and four-byte leads count as leading bytes.
is_utf8_char_boundary_long_leads(p) ==
    CharAt(p, 0) <= \b01111111 \/ CharAt(p, 0) >= \b11100000

is_utf8_char_boundary(p) ==
    CharAt(p, 0) <= \b01111111 \/ CharAt(p, 0) >= \b11000000

make_utf8_char_iter(u) == [str |-> u.str]

\* Seeded fault: the scan gives up after two bytes.
RECURSIVE next_boundary_one_past(_, _)
next_boundary_one_past(p, n) ==
    IF ~is_utf8_char_boundary(p) /\ n < 2
    THEN next_boundary_one_past(PtrAdd(p, 1), (n + 1) % 256)
    ELSE [str |-> p, byte_len |-> n]

\* The while loop of next_utf8_char: p is iter->str, n the uint8_t byte_len.
RECURSIVE next_boundary(_, _)
next_boundary(p, n) ==
    IF ~is_utf8_char_boundary(p) THEN next_boundary(PtrAdd(p, 1), (n + 1) % 256)
    ELSE [str |-> p, byte_len |-> n]

\* Seeded fault: the scan for the next boundary is left out.
next_utf8_char_no_scan(it) ==
    IF CharAt(it.str, 0) = 0
    THEN [iter |-> it, ch |-> [str |-> it.str, byte_len |-> 0]]
    ELSE [iter |-> [str |-> PtrAdd(it.str, 1)],
          ch |-> [str |-> it.str, byte_len |-> 1]]

\* Seeded fault: at the terminator the absent character is returned.
next_utf8_char_absent_at_end(it) ==
    IF CharAt(it.str, 0) = 0
    THEN [iter |-> it, ch |-> [str |-> NULL, byte_len |-> 0]]
    ELSE LET e == next_boundary(PtrAdd(it.str, 1), 1)
         IN  [iter |-> [str |-> e.str],
              ch |-> [str |-> it.str, byte_len |-> e.byte_len]]

\* next_utf8_char(&it): the iterator afterwards and the character returned.
next_utf8_char(it) ==
    IF CharAt(it.str, 0) = 0
    THEN [iter |-> it, ch |-> [str |-> it.str, byte_len |-> 0]]
    ELSE LET curr_boundary == it.str
             e == next_boundary(PtrAdd(it.str, 1), 1)
         IN  [iter |-> [str |-> e.str],
              ch |-> [str |-> curr_boundary, byte_len |-> e.byte_len]]

\* ------------------------------------------------------------------ initial state

Init ==
    /\ input \in Inputs
    /\ str \in { NULL, [base |-> "input", off |-> 0] }
    /\ str = NULL => input = <<>>
    /\ validity = None
    /\ boundary = None
    /\ ustr = None
    /\ iter = None
    /\ ch = None
    /\ fault = FALSE
    /\ pc = "idle"
    /\ len = 0
    /\ worst_case_size = 0
    /\ offset = 0
    /\ buffer_offset = 0
    /\ char_validity = None
    /\ buffer = <<>>
    /\ owned_ustr = None
    /\ count = None
    /\ nth = None
    /\ slice = None
    /\ code_point = None
    /\ heap = "none"
    /\ releases = 0
    /\ free_calls = 0
    /\ reads = { }

\* ------------------------------------------------------------------ validate_utf8, is_utf8_char_boundary

\* validity = validate_utf8(str)
ValidateUtf8 ==
    /\ validity' = validate_utf8(str)
    /\ reads' = validate_utf8_reads(str)
    /\ UNCHANGED << worst_case_size, count, nth, slice, code_point, heap, releases, free_calls >>
    /\ UNCHANGED << input, str, boundary, ustr, iter, ch, fault,
                    pc, len, offset, buffer_offset, char_validity, buffer, owned_ustr >>

\* is_utf8_char_boundary(str + i), for a position i of the string or its terminator
IsUtf8CharBoundary(i) ==
    /\ str # NULL
    /\ boundary' = [at |-> i, ret |-> is_utf8_char_boundary(PtrAdd(str, i))]
    /\ UNCHANGED << worst_case_size, count, nth, slice, code_point, heap, releases, free_calls, reads >>
    /\ UNCHANGED << input, str, validity, ustr, iter, ch, fault,
                    pc, len, offset, buffer_offset, char_validity, buffer, owned_ustr >>

Next ==
    \/ ValidateUtf8
    \/ \E i \in 0..Len(input) : IsUtf8CharBoundary(i)

Spec == Init /\ [][Next]_vars

\* ------------------------------------------------------------------ make_utf8_string, iterator

\* ustr = make_utf8_string(str)
MakeUtf8String ==
    /\ ~fault
    /\ ustr' = make_utf8_string(str)
    /\ reads' = validate_utf8_reads(str)
    /\ UNCHANGED << worst_case_size, count, nth, slice, code_point, heap, releases, free_calls >>
    /\ UNCHANGED << input, str, validity, boundary, iter, ch, fault,
                    pc, len, offset, buffer_offset, char_validity, buffer, owned_ustr >>

\* iter = make_utf8_char_iter(ustr)
MakeUtf8CharIter ==
    /\ ~fault
    /\ ustr # None
    /\ iter' = make_utf8_char_iter(ustr)
    /\ UNCHANGED << worst_case_size, count, nth, slice, code_point, heap, releases, free_calls, reads >>
    /\ UNCHANGED << input, str, validity, boundary, ustr, ch, fault,
                    pc, len, offset, buffer_offset, char_validity, buffer, owned_ustr >>

\* ch = next_utf8_char(&iter).  The function reads *iter->str first: with
\* iter->str = NULL (the iterator of an absent view) that is a NULL dereference.
NextUtf8Char ==
    /\ ~fault
    /\ iter # None
    /\ IF iter.str = NULL
       THEN /\ fault' = TRUE
            /\ UNCHANGED << iter, ch >>
       ELSE /\ iter' = next_utf8_char(iter).iter
            /\ ch' = next_utf8_char(iter).ch
            /\ UNCHANGED fault
    /\ UNCHANGED << worst_case_size, count, nth, slice, code_point, heap, releases, free_calls, reads >>
    /\ UNCHANGED << input, str, validity, boundary, ustr,
                    pc, len, offset, buffer_offset, char_validity, buffer, owned_ustr >>

\* ------------------------------------------------------------------ unicode_code_point

\* a | b
RECURSIVE BitOr(_, _)
BitOr(a, b) ==
    IF a = 0 THEN b
    ELSE IF b = 0 THEN a
    ELSE (IF a % 2 = 1 \/ b % 2 = 1 THEN 1 ELSE 0) + 2 * BitOr(a \div 2, b \div 2)

\* a << n in int.  The operand is a masked byte, at most 6 bits wide, and n
\* at most 18: the result is below 2^24 and the shift cannot overflow.
ShiftLeft(a, n) == a * 2 ^ n

\* Seeded fault: the lead byte of a three-byte character is shifted by 10.
unicode_code_point_short_shift(uchar) ==
    CASE uchar.byte_len = 1 -> BitAnd(CharAt(uchar.str, 0), \b01111111)
      [] uchar.byte_len = 2 ->
            BitOr(ShiftLeft(BitAnd(CharAt(uchar.str, 0), \b00011111), 6),
                  BitAnd(CharAt(uchar.str, 1), \b00111111))
      [] uchar.byte_len = 3 ->
            BitOr(BitOr(ShiftLeft(BitAnd(CharAt(uchar.str, 0), \b00001111), 10),
                        ShiftLeft(BitAnd(CharAt(uchar.str, 1), \b00111111), 6)),
                  BitAnd(CharAt(uchar.str, 2), \b00111111))
      [] uchar.byte_len = 4 ->
            BitOr(BitOr(BitOr(ShiftLeft(BitAnd(CharAt(uchar.str, 0), \b00000111), 18),
                              ShiftLeft(BitAnd(CharAt(uchar.str, 1), \b00111111), 12)),
                        ShiftLeft(BitAnd(CharAt(uchar.str, 2), \b00111111), 6)),
                  BitAnd(CharAt(uchar.str, 3), \b00111111))
      [] OTHER -> 0

\* The switch on uchar.byte_len; no case taken returns 0 and reads nothing.
unicode_code_point(uchar) ==
    CASE uchar.byte_len = 1 -> BitAnd(CharAt(uchar.str, 0), \b01111111)
      [] uchar.byte_len = 2 ->
            BitOr(ShiftLeft(BitAnd(CharAt(uchar.str, 0), \b00011111), 6),
                  BitAnd(CharAt(uchar.str, 1), \b00111111))
      [] uchar.byte_len = 3 ->
            BitOr(BitOr(ShiftLeft(BitAnd(CharAt(uchar.str, 0), \b00001111), 12),
                        ShiftLeft(BitAnd(CharAt(uchar.str, 1), \b00111111), 6)),
                  BitAnd(CharAt(uchar.str, 2), \b00111111))
      [] uchar.byte_len = 4 ->
            BitOr(BitOr(BitOr(ShiftLeft(BitAnd(CharAt(uchar.str, 0), \b00000111), 18),
                              ShiftLeft(BitAnd(CharAt(uchar.str, 1), \b00111111), 12)),
                        ShiftLeft(BitAnd(CharAt(uchar.str, 2), \b00111111), 6)),
                  BitAnd(CharAt(uchar.str, 3), \b00111111))
      [] OTHER -> 0

\* code_point = unicode_code_point(ch), for the character the cursor returned last
UnicodeCodePoint ==
    /\ ~fault
    /\ ch # None
    /\ code_point' = [uchar |-> ch, ret |-> unicode_code_point(ch)]
    /\ UNCHANGED << worst_case_size, count, nth, slice, heap, releases, free_calls, reads >>
    /\ UNCHANGED << input, str, validity, boundary, ustr, iter, ch, fault,
                    pc, len, offset, buffer_offset, char_validity, buffer, owned_ustr >>

NextCursor ==
    \/ MakeUtf8String
    \/ MakeUtf8CharIter
    \/ NextUtf8Char
    \/ UnicodeCodePoint

SpecCursor == Init /\ [][NextCursor]_vars

\* ------------------------------------------------------------------ make_utf8_string_lossy

\* buf[i] = b.  The lossy loop writes the block front to back, so a write
\* lands on a byte written before or on the first byte not yet written.
Store(buf, i, b) ==
    IF i < Len(buf) THEN [buf EXCEPT ![i + 1] = b] ELSE Append(buf, b)

\* memcpy(buf + at, s + from, n)
RECURSIVE memcpy(_, _, _, _, _)
memcpy(buf, at, s, from, n) ==
    IF n = 0 THEN buf
    ELSE memcpy(Store(buf, at, CharAt(s, from)), at + 1, s, from + 1, n - 1)

\* Seeded fault: the last byte of the marker mistyped.
StoreReplacementMistyped(buf, at) ==
    Store(Store(Store(buf, at, \HEF), at + 1, \HBF), at + 2, \HFD)

\* The three stores of U+FFFD: EF BF BD
StoreReplacement(buf, at) ==
    Store(Store(Store(buf, at, \HEF), at + 1, \HBF), at + 2, \HBD)

\* Seeded fault: two bytes per input byte are allowed for, not three.
worst_case_size_of_two(n) == SizeAdd(SizeMul(n, 2), 1)

\* size_t worst_case_size = len * 3 + 1
worst_case_size_of(n) == SizeAdd(SizeMul(n, 3), 1)

\* Seeded fault: the pointer malloc returned is not tested.
LossyCallMallocUnchecked ==
    /\ pc = "idle"
    /\ \/ /\ str = NULL
          /\ owned_ustr' = [str |-> NULL, byte_len |-> 0]
          /\ pc' = "done"
          /\ reads' = { }
          /\ UNCHANGED << len, worst_case_size, offset, buffer_offset, buffer, heap >>
       \/ /\ str # NULL
          /\ len' = strlen(str)
          /\ reads' = strlen_reads(str)
          /\ worst_case_size' = worst_case_size_of(len')
          /\ heap' \in { "failed", "live" }
          /\ buffer' = <<>>
          /\ buffer_offset' = 0
          /\ offset' = 0
          /\ pc' = "loop"
          /\ UNCHANGED owned_ustr
    /\ UNCHANGED << count, nth, slice, code_point, releases, free_calls >>
    /\ UNCHANGED << input, str, validity, boundary, ustr, iter, ch, fault, char_validity >>

\* Entry of make_utf8_string_lossy up to the loop: the NULL check, strlen, malloc.
LossyCall ==
    /\ pc = "idle"
    /\ \/ /\ str = NULL
          /\ owned_ustr' = [str |-> NULL, byte_len |-> 0]
          /\ pc' = "done"
          /\ reads' = { }
          /\ UNCHANGED << len, worst_case_size, offset, buffer_offset, buffer, heap >>
       \/ /\ str # NULL
          /\ len' = strlen(str)
          /\ reads' = strlen_reads(str)
          /\ worst_case_size' = worst_case_size_of(len')
          \* malloc returned NULL
          /\ heap' = "failed"
          /\ owned_ustr' = [str |-> NULL, byte_len |-> 0]
          /\ pc' = "done"
          /\ UNCHANGED << offset, buffer_offset, buffer >>
       \/ /\ str # NULL
          /\ len' = strlen(str)
          /\ reads' = strlen_reads(str)
          /\ worst_case_size' = worst_case_size_of(len')
          \* malloc returned a block of len * 3 + 1 bytes
          /\ heap' = "live"
          /\ buffer' = <<>>
          /\ buffer_offset' = 0
          /\ offset' = 0
          /\ pc' = "loop"
          /\ UNCHANGED owned_ustr
    /\ UNCHANGED << count, nth, slice, code_point, releases, free_calls >>
    /\ UNCHANGED << input, str, validity, boundary, ustr, iter, ch, fault, char_validity >>

\* Seeded fault: a rejected byte also consumes the byte after it.
LossyIterSkipsTwo ==
    /\ pc = "loop"
    /\ offset < len
    /\ LET cv == validate_utf8_char(str, offset)
       IN  /\ char_validity' = cv
           /\ IF cv.valid
              THEN LET char_len == cv.next_offset - offset
                   IN  /\ buffer' = memcpy(buffer, buffer_offset, str, offset, char_len)
                       /\ buffer_offset' = buffer_offset + char_len
                       /\ offset' = cv.next_offset
                       /\ reads' = reads \cup char_reads(str, offset)
                                         \cup memcpy_reads(offset, char_len)
              ELSE /\ buffer' = StoreReplacement(buffer, buffer_offset)
                   /\ buffer_offset' = buffer_offset + 3
                   /\ offset' = offset + 2
                   /\ reads' = reads \cup char_reads(str, offset)
    /\ UNCHANGED << worst_case_size, count, nth, slice, code_point, heap, releases, free_calls >>
    /\ UNCHANGED << input, str, validity, boundary, ustr, iter, ch, fault,
                    pc, len, owned_ustr >>

\* One iteration of the while loop of make_utf8_string_lossy.
LossyIter ==
    /\ pc = "loop"
    /\ offset < len
    /\ LET cv == validate_utf8_char(str, offset)
       IN  /\ char_validity' = cv
           /\ IF cv.valid
              THEN LET char_len == cv.next_offset - offset
                   IN  /\ buffer' = memcpy(buffer, buffer_offset, str, offset, char_len)
                       /\ buffer_offset' = buffer_offset + char_len
                       /\ offset' = cv.next_offset
                       /\ reads' = reads \cup char_reads(str, offset)
                                         \cup memcpy_reads(offset, char_len)
              ELSE /\ buffer' = StoreReplacement(buffer, buffer_offset)
                   /\ buffer_offset' = buffer_offset + 3
                   /\ offset' = offset + 1
                   /\ reads' = reads \cup char_reads(str, offset)
    /\ UNCHANGED << worst_case_size, count, nth, slice, code_point, heap, releases, free_calls >>
    /\ UNCHANGED << input, str, validity, boundary, ustr, iter, ch, fault,
                    pc, len, owned_ustr >>

\* Loop exit: the terminator is written and the owned string returned.
LossyReturn ==
    /\ pc = "loop"
    /\ ~(offset < len)
    /\ buffer' = Store(buffer, buffer_offset, 0)
    /\ owned_ustr' = [str |-> [base |-> "buffer", off |-> 0], byte_len |-> buffer_offset]
    /\ pc' = "done"
    /\ UNCHANGED << worst_case_size, count, nth, slice, code_point, heap, releases, free_calls, reads >>
    /\ UNCHANGED << input, str, validity, boundary, ustr, iter, ch, fault,
                    len, offset, buffer_offset, char_validity >>

\* validity = validate_utf8(owned_ustr.str)
ValidateOwned ==
    /\ pc = "done"
    /\ validity' = validate_utf8(owned_ustr.str)
    /\ UNCHANGED << worst_case_size, count, nth, slice, code_point, heap, releases, free_calls, reads >>
    /\ UNCHANGED << input, str, boundary, ustr, iter, ch, fault,
                    pc, len, offset, buffer_offset, char_validity, buffer, owned_ustr >>

NextLossy ==
    \/ LossyCall
    \/ LossyIter
    \/ LossyReturn
    \/ ValidateOwned

SpecLossy == Init /\ [][NextLossy]_vars

\* ------------------------------------------------------------------ utf8_char_count, nth_utf8_char

\* Seeded fault: the loop adds the bytes of each character, not one.
RECURSIVE count_loop_bytes(_, _)
count_loop_bytes(it, n) ==
    LET r == next_utf8_char(it)
    IN  IF r.ch.byte_len > 0 THEN count_loop_bytes(r.iter, n + r.ch.byte_len) ELSE n

\* The while loop of utf8_char_count, entered with the local count = n.
RECURSIVE count_loop(_, _)
count_loop(it, n) ==
    LET r == next_utf8_char(it)
    IN  IF r.ch.byte_len > 0 THEN count_loop(r.iter, n + 1) ELSE n

utf8_char_count(u) == count_loop(make_utf8_char_iter(u), 0)

\* Seeded fault: char_index is decremented before it is compared.
RECURSIVE nth_loop_predecrement(_, _)
nth_loop_predecrement(it, char_index) ==
    LET r == next_utf8_char(it)
    IN  IF r.ch.byte_len # 0 /\ char_index - 1 # 0
        THEN nth_loop_predecrement(r.iter, char_index - 1)
        ELSE r.ch

\* The while loop of nth_utf8_char: the last character read.  char_index is
\* compared with 0 and then decremented; the loop ends on the comparison
\* that finds 0, so the decrement below 0 is never looked at.
RECURSIVE nth_loop(_, _)
nth_loop(it, char_index) ==
    LET r == next_utf8_char(it)
    IN  IF r.ch.byte_len # 0 /\ char_index # 0
        THEN nth_loop(r.iter, char_index - 1)
        ELSE r.ch

nth_utf8_char(u, char_index) ==
    LET c == nth_loop(make_utf8_char_iter(u), char_index)
    IN  IF c.byte_len = 0 THEN [str |-> NULL, byte_len |-> 0] ELSE c

\* count = utf8_char_count(ustr).  The first next_utf8_char call reads
\* *iter->str: with the absent view that is a NULL dereference.
Utf8CharCount ==
    /\ ~fault
    /\ ustr # None
    /\ IF ustr.str = NULL
       THEN /\ fault' = TRUE
            /\ UNCHANGED count
       ELSE /\ count' = [ret |-> utf8_char_count(ustr)]
            /\ UNCHANGED fault
    /\ UNCHANGED << worst_case_size, nth, slice, code_point, heap, releases, free_calls, reads >>
    /\ UNCHANGED << input, str, validity, boundary, ustr, iter, ch,
                    pc, len, offset, buffer_offset, char_validity, buffer, owned_ustr >>

\* nth = nth_utf8_char(ustr, char_index)
NthUtf8Char(char_index) ==
    /\ ~fault
    /\ ustr # None
    /\ IF ustr.str = NULL
       THEN /\ fault' = TRUE
            /\ UNCHANGED nth
       ELSE /\ nth' = [char_index |-> char_index, ret |-> nth_utf8_char(ustr, char_index)]
            /\ UNCHANGED fault
    /\ UNCHANGED << worst_case_size, count, slice, code_point, heap, releases, free_calls, reads >>
    /\ UNCHANGED << input, str, validity, boundary, ustr, iter, ch,
                    pc, len, offset, buffer_offset, char_validity, buffer, owned_ustr >>

NextIndex ==
    \/ MakeUtf8String
    \/ Utf8CharCount
    \/ \E char_index \in 0..MaxIndex : NthUtf8Char(char_index)

SpecIndex == Init /\ [][NextIndex]_vars

\* ------------------------------------------------------------------ slice_utf8_string

\* Values of a size_t argument: the small ones and the ones next to SIZE_MAX.
SliceArgs == (0..MaxSliceArg) \cup ((SIZE_MAX - 1)..SIZE_MAX)

slice_utf8_string(u, start_byte_index, byte_len) ==
    LET start == IF start_byte_index > u.byte_len THEN u.byte_len ELSE start_byte_index
        sum == SizeAdd(start, byte_len)
        excl_end_byte_index == IF sum > u.byte_len THEN u.byte_len ELSE sum
    IN  IF /\ is_utf8_char_boundary(PtrAdd(u.str, start))
           /\ is_utf8_char_boundary(PtrAdd(u.str, excl_end_byte_index))
        THEN [str |-> PtrAdd(u.str, start),
              byte_len |-> SizeSub(excl_end_byte_index, start)]
        ELSE [str |-> NULL, byte_len |-> 0]

\* slice = slice_utf8_string(ustr, start_byte_index, byte_len).  The function
\* reads ustr.str[start]: with the absent view that is a NULL dereference.
SliceUtf8String(start_byte_index, byte_len) ==
    /\ ~fault
    /\ ustr # None
    /\ IF ustr.str = NULL
       THEN /\ fault' = TRUE
            /\ UNCHANGED slice
       ELSE /\ slice' = [start_byte_index |-> start_byte_index,
                         byte_len |-> byte_len,
                         ret |-> slice_utf8_string(ustr, start_byte_index, byte_len)]
            /\ UNCHANGED fault
    /\ UNCHANGED << worst_case_size, count, nth, code_point, heap, releases, free_calls, reads >>
    /\ UNCHANGED << input, str, validity, boundary, ustr, iter, ch,
                    pc, len, offset, buffer_offset, char_validity, buffer, owned_ustr >>

NextSlice ==
    \/ MakeUtf8String
    \/ \E start_byte_index \in SliceArgs, byte_len \in SliceArgs :
           SliceUtf8String(start_byte_index, byte_len)

SpecSlice == Init /\ [][NextSlice]_vars

\* ------------------------------------------------------------------ the three entry points together

\* No call was made yet on the caller's string.
Fresh == validity = None /\ ustr = None /\ pc = "idle"

\* One call of validate_utf8, make_utf8_string or make_utf8_string_lossy on
\* the caller's string.  The three take a const char* and keep nothing
\* between calls, so what one call reads does not depend on the calls
\* made before it.
NextReads ==
    \/ Fresh /\ ValidateUtf8
    \/ Fresh /\ MakeUtf8String
    \/ Fresh /\ LossyCall
    \/ LossyIter
    \/ LossyReturn

SpecReads == Init /\ [][NextReads]_vars

\* ------------------------------------------------------------------ as_utf8_string, free_owned_utf8_string

as_utf8_string(owned_str) ==
    [str |-> owned_str.str, byte_len |-> owned_str.byte_len]

\* ustr = as_utf8_string(&owned_ustr)
AsUtf8String ==
    /\ pc = "done"
    /\ ustr' = as_utf8_string(owned_ustr)
    /\ UNCHANGED << worst_case_size, count, nth, slice, code_point, heap, releases, free_calls, reads >>
    /\ UNCHANGED << input, str, validity, boundary, iter, ch, fault,
                    pc, len, offset, buffer_offset, char_validity, buffer, owned_ustr >>

\* Seeded fault: the block is freed and the owned string left as it was.
FreeOwnedUtf8StringKeepsPointer ==
    /\ pc = "done"
    /\ free_calls < MaxFreeCalls
    /\ free_calls' = free_calls + 1
    /\ IF owned_ustr.str # NULL
       THEN /\ heap' = "freed"
            /\ releases' = releases + 1
            /\ UNCHANGED owned_ustr
       ELSE UNCHANGED << heap, releases, owned_ustr >>
    /\ UNCHANGED << worst_case_size, count, nth, slice, code_point, reads >>
    /\ UNCHANGED << input, str, validity, boundary, ustr, iter, ch, fault,
                    pc, len, offset, buffer_offset, char_validity, buffer >>

\* free_owned_utf8_string(&owned_ustr)
FreeOwnedUtf8String ==
    /\ pc = "done"
    /\ free_calls < MaxFreeCalls
    /\ free_calls' = free_calls + 1
    /\ IF owned_ustr.str # NULL
       THEN /\ heap' = "freed"
            /\ releases' = releases + 1
            /\ owned_ustr' = [str |-> NULL, byte_len |-> 0]
       ELSE UNCHANGED << heap, releases, owned_ustr >>
    /\ UNCHANGED << worst_case_size, count, nth, slice, code_point, reads >>
    /\ UNCHANGED << input, str, validity, boundary, ustr, iter, ch, fault,
                    pc, len, offset, buffer_offset, char_validity, buffer >>

\* One make_utf8_string_lossy call, then as_utf8_string and
\* free_owned_utf8_string calls on the owned string it returned.
NextOwned ==
    \/ LossyCall
    \/ LossyIter
    \/ LossyReturn
    \/ AsUtf8String
    \/ FreeOwnedUtf8String

SpecOwned == Init /\ [][NextOwned]_vars

\* ------------------------------------------------------------------ iterator, count and nth over a slice

\* Nothing was read yet from the slice the caller holds.
SliceUnread == slice # None /\ iter = None /\ count = None /\ nth = None

\* iter = make_utf8_char_iter(slice)
SliceCharIter ==
    /\ ~fault
    /\ SliceUnread
    /\ iter' = make_utf8_char_iter(slice.ret)
    /\ UNCHANGED << worst_case_size, count, nth, slice, code_point, heap, releases, free_calls, reads >>
    /\ UNCHANGED << input, str, validity, boundary, ustr, ch, fault,
                    pc, len, offset, buffer_offset, char_validity, buffer, owned_ustr >>

\* count = utf8_char_count(slice).  With the absent view the first
\* next_utf8_char call dereferences NULL.
SliceCharCount ==
    /\ ~fault
    /\ SliceUnread
    /\ IF slice.ret.str = NULL
       THEN /\ fault' = TRUE
            /\ UNCHANGED count
       ELSE /\ count' = [ret |-> utf8_char_count(slice.ret)]
            /\ UNCHANGED fault
    /\ UNCHANGED << worst_case_size, nth, slice, code_point, heap, releases, free_calls, reads >>
    /\ UNCHANGED << input, str, validity, boundary, ustr, iter, ch,
                    pc, len, offset, buffer_offset, char_validity, buffer, owned_ustr >>

\* nth = nth_utf8_char(slice, char_index)
SliceNthChar(char_index) ==
    /\ ~fault
    /\ SliceUnread
    /\ IF slice.ret.str = NULL
       THEN /\ fault' = TRUE
            /\ UNCHANGED nth
       ELSE /\ nth' = [char_index |-> char_index,
                       ret |-> nth_utf8_char(slice.ret, char_index)]
            /\ UNCHANGED fault
    /\ UNCHANGED << worst_case_size, count, slice, code_point, heap, releases, free_calls, reads >>
    /\ UNCHANGED << input, str, validity, boundary, ustr, iter, ch,
                    pc, len, offset, buffer_offset, char_validity, buffer, owned_ustr >>

\* A view is made, one slice of it is taken with a start and a length that
\* lie in or just past the view, and the slice is read in one of three ways.
NextSliceCursor ==
    \/ ustr = None /\ MakeUtf8String
    \/ \E start_byte_index \in 0..MaxSliceArg, byte_len \in 0..MaxSliceArg :
           slice = None /\ SliceUtf8String(start_byte_index, byte_len)
    \/ SliceCharIter
    \/ NextUtf8Char
    \/ SliceCharCount
    \/ \E char_index \in 0..MaxIndex : SliceNthChar(char_index)

SpecSliceCursor == Init /\ [][NextSliceCursor]_vars

\* ------------------------------------------------------------------ the four forms, as the specification tables them

\* Byte i (from 0) of the byte string s; 0, the terminator, from its end on.
ByteOf(s, i) == IF i < Len(s) THEN s[i + 1] ELSE 0

IsContinuation(b) == b \in 128..191

\* Length of the form that starts at byte i of s, 0 when none does.
FormLength(s, i) ==
    LET b0 == ByteOf(s, i)
        b1 == ByteOf(s, i + 1)
        b2 == ByteOf(s, i + 2)
        b3 == ByteOf(s, i + 3)
    IN  IF b0 < 128 THEN 1
        ELSE IF /\ b0 \div 32 = 6
                /\ IsContinuation(b1)
                /\ b0 % 32 >= 2 THEN 2
        ELSE IF /\ b0 \div 16 = 14
                /\ IsContinuation(b1) /\ IsContinuation(b2)
                /\ ~(b0 % 16 = 0 /\ b1 % 64 < 32)
                /\ ~(b0 = 237 /\ b1 \in 160..191) THEN 3
        ELSE IF /\ b0 \div 8 = 30
                /\ IsContinuation(b1) /\ IsContinuation(b2) /\ IsContinuation(b3)
                /\ ~(b0 % 8 = 0 /\ b1 % 64 < 16) THEN 4
        ELSE 0

\* s, from byte i on, is a concatenation of whole forms (and has no 0 byte).
RECURSIVE ConcatOfFormsFrom(_, _)
ConcatOfFormsFrom(s, i) ==
    IF i >= Len(s) THEN i = Len(s)
    ELSE /\ FormLength(s, i) > 0
         /\ ConcatOfFormsFrom(s, i + FormLength(s, i))

ConcatOfForms(s) == ConcatOfFormsFrom(s, 0)

\* Lengths of the prefixes of s that are concatenations of whole forms.
ValidPrefixLengths(s) ==
    { k \in 0..Len(s) : ConcatOfForms(SubSeq(s, 1, k)) }

Longest(S) == CHOOSE k \in S : \A j \in S : j <= k

\* ------------------------------------------------------------------ claims

\* C1: for every NUL-terminated buffer that is a concatenation of valid
\* encodings, validate_utf8 returns valid = true and valid_upto = the full
\* byte length of the buffer.
C1_ValidBufferFullLength ==
    (validity # None /\ str # NULL /\ ConcatOfForms(input))
        => validity = [valid |-> TRUE, valid_upto |-> Len(input)]

C1_Witness ==
    /\ validity # None /\ str # NULL
    /\ ConcatOfForms(input)
    /\ Len(input) = 8

\* C2: the valid_upto of validate_utf8 lies in the buffer at the end of a
\* run of whole valid encodings: with valid = false it is the length of the
\* longest prefix made only of valid encodings (0 when the first is
\* malformed), with valid = true it is the whole length; a null buffer gives
\* valid = false and valid_upto = 0.
C2_ValidUptoLongestPrefix ==
    validity # None =>
        IF str = NULL THEN validity = [valid |-> FALSE, valid_upto |-> 0]
        ELSE /\ validity.valid_upto \in ValidPrefixLengths(input)
             /\ validity.valid_upto = Longest(ValidPrefixLengths(input))
             /\ validity.valid = (validity.valid_upto = Len(input))

C2_Witness ==
    /\ validity # None /\ str # NULL
    /\ ~validity.valid
    /\ validity.valid_upto = 3
    /\ Len(input) > 4

\* s starts with an overlong lead: C0, C1, E0 + (< A0), F0 + (< 90).
OverlongStart(s) ==
    /\ Len(s) >= 1
    /\ \/ s[1] \in { 192, 193 }
       \/ s[1] = 224 /\ ByteOf(s, 1) < 160
       \/ s[1] = 240 /\ ByteOf(s, 1) < 144

\* C4: a buffer that starts with lead C0 or C1, or with E0 and a second byte
\* below A0, or with F0 and a second byte below 90, is reported invalid with
\* valid_upto = 0, whatever follows.
C4_OverlongRejected ==
    (validity # None /\ str # NULL /\ OverlongStart(input))
        => validity = [valid |-> FALSE, valid_upto |-> 0]

C4_Witness ==
    /\ validity # None /\ str # NULL
    /\ input = << 224, 159, 191 >>

\* s starts with the encoding of a UTF-16 surrogate.
SurrogateStart(s) ==
    /\ Len(s) >= 3
    /\ s[1] = 237
    /\ s[2] \in 160..191
    /\ s[3] \in 128..191

\* C5: a buffer that starts with ED xx yy, xx in A0..BF and yy in 80..BF, is
\* reported invalid with valid_upto = 0.
C5_SurrogateRejected ==
    (validity # None /\ str # NULL /\ SurrogateStart(input))
        => validity = [valid |-> FALSE, valid_upto |-> 0]

C5_Witness ==
    /\ validity # None /\ str # NULL
    /\ input = << 237, 160, 128 >>

\* C9: in a validated buffer of length n, is_utf8_char_boundary at byte i of
\* [0, n] is true iff that byte is not a continuation byte (80..BF); it is
\* true at i = n, the terminator.
C9_BoundaryIffNotContinuation ==
    (validity # None /\ str # NULL /\ validity.valid /\ boundary # None)
        => /\ boundary.ret = ~IsContinuation(ByteOf(input, boundary.at))
           /\ boundary.at = Len(input) => boundary.ret

C9_Witness ==
    /\ validity # None /\ str # NULL /\ validity.valid
    /\ boundary # None
    /\ boundary.at = 3
    /\ ~boundary.ret

\* C3: validate_utf8_char(buf, off) returns valid with next_offset = off + L
\* exactly when one of the four forms, of length L, starts at off, and
\* invalid with next_offset = off in every other case.
C3_ClassifierMatchesForms ==
    [][LossyIter =>
        char_validity' =
            IF FormLength(input, offset) > 0
            THEN [valid |-> TRUE, next_offset |-> offset + FormLength(input, offset)]
            ELSE [valid |-> FALSE, next_offset |-> offset]]_vars

C3_Witness ==
    /\ pc = "loop"
    /\ char_validity = [valid |-> TRUE, next_offset |-> 4]
    /\ offset = 4
    /\ input = << 247, 191, 191, 191 >>

\* C6: make_utf8_string returns {str = the input pointer, byte_len = the
\* full length} exactly when validate_utf8 reports the input valid, and
\* {NULL, 0} for every null or invalid input, a valid prefix or not.
C6_AllOrNothing ==
    ustr # None =>
        IF validate_utf8(str).valid
        THEN ustr = [str |-> str, byte_len |-> Len(input)] /\ str # NULL
        ELSE ustr = [str |-> NULL, byte_len |-> 0]

C6_Witness ==
    /\ ustr = [str |-> NULL, byte_len |-> 0]
    /\ str # NULL
    /\ Longest(ValidPrefixLengths(input)) = 3
    /\ Len(input) > 3

\* C7: for every non-null input the bytes returned by make_utf8_string_lossy
\* are valid UTF-8: validate_utf8 of them gives valid = true and valid_upto =
\* the returned byte_len.
C7_LossyOutputValid ==
    (pc = "done" /\ owned_ustr.str # NULL /\ validity # None)
        => validity = [valid |-> TRUE, valid_upto |-> owned_ustr.byte_len]

C7_Witness ==
    /\ pc = "done" /\ owned_ustr.str # NULL /\ validity # None
    /\ input = << 192, 237, 160, 128 >>

\* The output of the walk of s from offset i up to offset stop: an accepted
\* span verbatim, EF BF BD for a rejected offset.
RECURSIVE RepairWalk(_, _, _)
RepairWalk(s, i, stop) ==
    IF i >= stop THEN << >>
    ELSE IF FormLength(s, i) > 0
         THEN SubSeq(s, i + 1, i + FormLength(s, i))
                  \o RepairWalk(s, i + FormLength(s, i), stop)
         ELSE << 239, 191, 189 >> \o RepairWalk(s, i + 1, stop)

\* The offsets the walk of s visits from offset i on.
RECURSIVE WalkOffsets(_, _)
WalkOffsets(s, i) ==
    IF i >= Len(s) THEN { }
    ELSE { i } \cup WalkOffsets(s, i + (IF FormLength(s, i) > 0 THEN FormLength(s, i) ELSE 1))

\* n plus, over the offsets S of s, the span length of an accepted offset
\* and 3 for a rejected one.
RECURSIVE SumOver(_, _, _)
SumOver(S, s, n) ==
    IF S = { } THEN n
    ELSE LET i == CHOOSE j \in S : TRUE
         IN  SumOver(S \ { i }, s, n + (IF FormLength(s, i) > 0 THEN FormLength(s, i) ELSE 3))

\* k markers in a row.
RECURSIVE Markers(_)
Markers(k) == IF k = 0 THEN << >> ELSE << 239, 191, 189 >> \o Markers(k - 1)

\* C8: the lossy walk goes left to right, copies each accepted span verbatim
\* and advances by its length, writes one marker EF BF BD for each rejected
\* offset and advances by one byte; so the output length is the bytes of the
\* accepted spans plus 3 per rejected offset, a valid input comes back
\* byte-equal and k invalid bytes give k markers.
C8_LossyWalk ==
    /\ pc = "loop" =>
        /\ offset \in WalkOffsets(input, 0) \cup { Len(input) }
        /\ buffer_offset = Len(buffer)
        /\ buffer = RepairWalk(input, 0, offset)
    /\ (pc = "done" /\ owned_ustr.str # NULL) =>
        LET out == SubSeq(buffer, 1, owned_ustr.byte_len)
        IN  /\ Len(buffer) = owned_ustr.byte_len + 1
            /\ buffer[owned_ustr.byte_len + 1] = 0
            /\ out = RepairWalk(input, 0, Len(input))
            /\ owned_ustr.byte_len = SumOver(WalkOffsets(input, 0), input, 0)
            /\ ConcatOfForms(input) => out = input
            /\ (\A i \in 0..(Len(input) - 1) : FormLength(input, i) = 0)
                   => out = Markers(Len(input))

C8_Witness ==
    /\ pc = "done" /\ owned_ustr.str # NULL
    /\ input = << 192, 192 >>
    /\ buffer = << 239, 191, 189, 239, 191, 189, 0 >>

\* C10: for a cursor over a view made by make_utf8_string and not at the
\* terminator, next_utf8_char returns the character that starts at the
\* cursor and ends at the next boundary, with byte_len in 1..4, and moves the
\* cursor forward by that byte_len; so successive calls return the
\* characters of the view in order, without gap or overlap.
C10_NextReturnsCharacter ==
    [][(NextUtf8Char /\ iter.str # NULL /\ CharAt(iter.str, 0) # 0) =>
        /\ ch'.str = iter.str
        /\ ch'.byte_len \in 1..4
        /\ ch'.byte_len = FormLength(input, iter.str.off)
        /\ iter'.str = PtrAdd(iter.str, ch'.byte_len)
        /\ ~IsContinuation(ByteOf(input, iter'.str.off))
        /\ \A k \in 1..(ch'.byte_len - 1) :
               IsContinuation(ByteOf(input, iter.str.off + k))]_vars

C10_Witness ==
    /\ iter # None /\ ch # None
    /\ ch.byte_len = 4
    /\ ch.str.off = 3
    /\ iter.str.off = 7

\* C11: once a cursor is at the terminator, every next_utf8_char call
\* returns a character with byte_len = 0 whose str points at the terminator
\* and leaves the cursor where it is; the call is no error and the cursor
\* never leaves the terminator.
C11_ExhaustionIdempotent ==
    [][(NextUtf8Char /\ iter.str # NULL /\ CharAt(iter.str, 0) = 0) =>
        /\ ch' = [str |-> iter.str, byte_len |-> 0]
        /\ iter' = iter
        /\ CharAt(iter'.str, 0) = 0
        /\ ch'.str.off = Len(input)
        /\ ~fault']_vars

C11_Witness ==
    /\ iter # None /\ iter.str # NULL
    /\ Len(input) > 0
    /\ iter.str.off = Len(input)
    /\ ch = [str |-> iter.str, byte_len |-> 0]

\* Number of bytes of s that are not continuation bytes.
NonContinuationCount(s) ==
    Cardinality({ i \in 1..Len(s) : ~IsContinuation(s[i]) })

\* C12: for every view made by make_utf8_string, utf8_char_count returns the
\* number of characters of the string, which is the number of
\* non-continuation bytes in [0, byte_len); it returns 0 for the empty string.
C12_CountIsNonContinuationBytes ==
    (ustr # None /\ ustr.str # NULL /\ count # None) =>
        /\ count.ret = NonContinuationCount(SubSeq(input, 1, ustr.byte_len))
        /\ count.ret = Cardinality(WalkOffsets(input, 0))
        /\ input = << >> => count.ret = 0

C12_Witness ==
    /\ ustr # None /\ ustr.str # NULL
    /\ input = << 227, 129, 147, 240, 159, 152, 129 >>
    /\ count = [ret |-> 2]

\* The k-th (from 0) form of s counted from offset i: where it starts and
\* its length; length 0 when s has no such form.
RECURSIVE NthForm(_, _, _)
NthForm(s, i, k) ==
    IF i >= Len(s) \/ FormLength(s, i) = 0 THEN [off |-> Len(s), len |-> 0]
    ELSE IF k = 0 THEN [off |-> i, len |-> FormLength(s, i)]
    ELSE NthForm(s, i + FormLength(s, i), k - 1)

\* C13: for every view v made by make_utf8_string and every index k:
\* nth_utf8_char(v, k) is the (k+1)-th character of v when k is below the
\* character count of v, and the absent character {NULL, 0} when k is at or
\* above it, which covers every k on the empty view.
C13_NthIsKthCharacter ==
    (ustr # None /\ ustr.str # NULL /\ nth # None) =>
        LET k == nth.char_index
            f == NthForm(input, 0, k)
        IN  IF k < NonContinuationCount(input)
            THEN /\ nth.ret = [str |-> PtrAdd(ustr.str, f.off), byte_len |-> f.len]
                 /\ f.len \in 1..4
            ELSE nth.ret = [str |-> NULL, byte_len |-> 0]

C13_Witness ==
    /\ ustr # None /\ ustr.str # NULL /\ nth # None
    /\ input = << 227, 129, 147, 240, 159, 152, 129 >>
    /\ nth.char_index = 1
    /\ nth.ret = [str |-> [base |-> "input", off |-> 3], byte_len |-> 4]

\* The smaller of two numbers.
Min(a, b) == IF a <= b THEN a ELSE b

\* The slice call made last had a start and a length whose sum is
\* representable in size_t.
SliceSumRepresentable ==
    Min(slice.start_byte_index, ustr.byte_len) + slice.byte_len <= SIZE_MAX

\* The last slice call succeeded iff the clamped start and the clamped end
\* are both boundaries, and returned the absent view otherwise.
SucceedsIffBothBoundaries ==
    LET L == ustr.byte_len
        s == Min(slice.start_byte_index, L)
        e == Min(slice.start_byte_index + slice.byte_len, L)
        success == slice.ret.str # NULL
    IN  /\ success <=> (/\ ~IsContinuation(ByteOf(input, s))
                        /\ ~IsContinuation(ByteOf(input, e)))
        /\ ~success => slice.ret = [str |-> NULL, byte_len |-> 0]

\* C14: slice_utf8_string(v, start, len) on a validated view v succeeds iff
\* the clamped start min(start, L) and the clamped end min(start + len, L),
\* L = v.byte_len, are both boundaries; otherwise it returns the absent view
\* {NULL, 0}.
C14_SliceIffBothBoundaries ==
    (ustr # None /\ ustr.str # NULL /\ slice # None) => SucceedsIffBothBoundaries

\* A call on which C14 fails: the view C2 80, start 2, length SIZE_MAX.  The
\* clamped start and the end of the view are boundaries, the result is absent.
C14_Witness ==
    /\ ustr # None /\ ustr.str # NULL /\ slice # None
    /\ input = << 194, 128 >>
    /\ slice.start_byte_index = 2
    /\ slice.byte_len = SIZE_MAX
    /\ slice.ret = [str |-> NULL, byte_len |-> 0]

\* The statement of C14 holds on every call whose start + length is
\* representable in size_t, the tests' calls among them.
C14_HoldsWithoutWrap ==
    (ustr # None /\ ustr.str # NULL /\ slice # None /\ SliceSumRepresentable)
        => SucceedsIffBothBoundaries

\* The last slice call returned the range [min(start, L), min(start + len, L))
\* of the view's buffer and left the view as make_utf8_string returned it.
IsClampedRange ==
    LET L == ustr.byte_len
        s == Min(slice.start_byte_index, L)
        e == Min(slice.start_byte_index + slice.byte_len, L)
    IN  /\ slice.ret = [str |-> PtrAdd(ustr.str, s), byte_len |-> e - s]
        /\ ustr = [str |-> str, byte_len |-> Len(input)]
        /\ slice.start_byte_index > L =>
               slice.ret = [str |-> PtrAdd(ustr.str, L), byte_len |-> 0]
        /\ slice.byte_len > L - s => slice.ret.byte_len = L - s
        /\ (slice.start_byte_index = 0 /\ slice.byte_len = L) => slice.ret = ustr

\* C15: a successful slice_utf8_string(v, start, len) is the byte range
\* [min(start, L), min(start + len, L)) of the same buffer, L = v.byte_len:
\* str = v.str + min(start, L) and v is unchanged; a start beyond L gives an
\* empty non-absent slice at the end of v, a length past L is truncated to
\* the remainder, and slice(v, 0, L) is byte-equal to v.
C15_SliceIsClampedRange ==
    (ustr # None /\ ustr.str # NULL /\ slice # None /\ slice.ret.str # NULL)
        => IsClampedRange

\* A call on which C15 fails: the view "HH", start 1, length SIZE_MAX.  The
\* slice returned starts at byte 1 and has byte_len SIZE_MAX.
C15_Witness ==
    /\ ustr # None /\ ustr.str # NULL /\ slice # None
    /\ input = << 72, 72 >>
    /\ slice.start_byte_index = 1
    /\ slice.byte_len = SIZE_MAX
    /\ slice.ret = [str |-> [base |-> "input", off |-> 1], byte_len |-> SIZE_MAX]

\* The statement of C15 holds on every call whose start + length is
\* representable in size_t.
C15_HoldsWithoutWrap ==
    (/\ ustr # None /\ ustr.str # NULL /\ slice # None /\ slice.ret.str # NULL
     /\ SliceSumRepresentable) => IsClampedRange

\* The bytes of the character c of the input.
BytesOf(c) == SubSeq(input, c.str.off + 1, c.str.off + c.byte_len)

\* The payload bits of the encoding b, lead byte first: 7, 5, 4 or 3 bits of
\* the lead byte, then 6 bits of each byte that follows.
PayloadValue(b) ==
    CASE Len(b) = 1 -> (b[1] % 128)
      [] Len(b) = 2 -> (b[1] % 32) * 64 + (b[2] % 64)
      [] Len(b) = 3 -> (b[1] % 16) * 4096 + (b[2] % 64) * 64 + (b[3] % 64)
      [] Len(b) = 4 -> (b[1] % 8) * 262144 + (b[2] % 64) * 4096
                           + (b[3] % 64) * 64 + (b[4] % 64)

\* C16: for every character of length 1..4 returned by a cursor over a
\* validated view, unicode_code_point is the lead byte masked with 7F, 1F, 0F
\* or 07 followed by the low 6 bits of each continuation byte, lead byte most
\* significant; 'H' gives 72, E3 81 93 gives 12371, F0 9F 98 81 gives 128513.
C16_CodePointIsPayload ==
    (code_point # None /\ code_point.uchar.byte_len \in 1..4) =>
        LET b == BytesOf(code_point.uchar)
        IN  /\ code_point.ret = PayloadValue(b)
            /\ b = << 72 >> => code_point.ret = 72
            /\ b = << 227, 129, 147 >> => code_point.ret = 12371
            /\ b = << 240, 159, 152, 129 >> => code_point.ret = 128513

C16_Witness ==
    /\ code_point # None
    /\ BytesOf(code_point.uchar) = << 227, 129, 147 >>
    /\ code_point.uchar.str.off = 4
    /\ code_point.ret = 12371

\* C17: for every character of a view that make_utf8_string accepted,
\* unicode_code_point is in [0, 0x10FFFF] and not a surrogate in
\* [0xD800, 0xDFFF].
C17_CodePointIsScalarValue ==
    (code_point # None /\ code_point.uchar.byte_len \in 1..4) =>
        /\ code_point.ret \in 0..\H10FFFF
        /\ code_point.ret \notin \HD800..\HDFFF

\* A character on which C17 fails: F7 BF BF BF, accepted and decoded to 0x1FFFFF.
C17_Witness ==
    /\ ustr # None /\ ustr.str # NULL
    /\ code_point # None
    /\ BytesOf(code_point.uchar) = << 247, 191, 191, 191 >>
    /\ code_point.ret = \H1FFFFF

\* What holds of C17: the value is never a surrogate and fits in 21 bits.
C17_NeverSurrogate ==
    (code_point # None /\ code_point.uchar.byte_len \in 1..4) =>
        /\ code_point.ret \in 0..\H1FFFFF
        /\ code_point.ret \notin \HD800..\HDFFF

\* Length the lead byte b announces: 1 for a byte that is no multi-byte lead.
AnnouncedLength(b) ==
    IF b \in 192..223 THEN 2
    ELSE IF b \in 224..239 THEN 3
    ELSE IF b \in 240..247 THEN 4
    ELSE 1

\* C18: on every NUL-terminated buffer of length n, validate_utf8,
\* make_utf8_string and make_utf8_string_lossy return and read no byte at an
\* index above n: each loop step moves its offset forward and not past n,
\* the classifier reads the byte at offset + k only after the bytes before
\* it, from offset on, were found not to be the terminator, and a multi-byte
\* sequence cut short by the terminator is rejected.
C18_ReadsStayInBuffer ==
    [][(str # NULL) =>
        /\ reads' \subseteq 0..Len(input)
        /\ validity' # None => validity'.valid_upto \in 0..Len(input)
        /\ ustr' # None => ustr'.byte_len \in 0..Len(input)
        /\ (pc' = "loop") => (len' = Len(input) /\ offset' <= len')
        /\ LossyIter => offset < offset'
        /\ LossyReturn => offset = len
        \* the classifier, at every offset of the buffer the call is given
        /\ Fresh =>
            \A off \in 0..(Len(input) - 1) :
                LET cv == validate_utf8_char(str, off)
                IN  /\ cv.valid => (off < cv.next_offset /\ cv.next_offset <= Len(input))
                    /\ ~cv.valid => cv.next_offset = off
                    /\ \A r \in char_reads(str, off) :
                           /\ r \in off..Len(input)
                           /\ \A j \in off..(r - 1) : ByteOf(input, j) # 0
                    /\ off + AnnouncedLength(ByteOf(input, off)) > Len(input)
                           => ~cv.valid
       ]_vars

\* validate_utf8 on 48 F0 90 80: the classifier reads the terminator, at
\* offset 4, as the candidate third continuation byte and rejects.
C18_Witness ==
    /\ str # NULL
    /\ input = << 72, 240, 144, 128 >>
    /\ validity = [valid |-> FALSE, valid_upto |-> 1]
    /\ reads = 0..4

\* C19: make_utf8_string_lossy never fails: for every input, the empty
\* string included, it returns a non-NULL str; the absent result {NULL, 0} is
\* returned only when the allocation fails, and no allocation is retained then.
C19_AbsentOnlyOnAllocFailure ==
    pc = "done" =>
        /\ owned_ustr.str = NULL => heap = "failed"
        /\ heap = "failed" => owned_ustr = [str |-> NULL, byte_len |-> 0]

\* C19, as the code has it: for every non-NULL input, the empty string
\* included, make_utf8_string_lossy returns a non-NULL str unless the
\* allocation fails; the absent result {NULL, 0} is returned when the input
\* pointer is NULL, without an allocation being attempted, and when the
\* allocation fails; in both cases no allocation is retained.
C19_AbsentOnNullOrAllocFailure ==
    pc = "done" =>
        /\ owned_ustr.str = NULL <=> (str = NULL \/ heap = "failed")
        /\ str = NULL => heap = "none"
        /\ owned_ustr.str = NULL => (owned_ustr.byte_len = 0 /\ heap # "live")
        /\ owned_ustr.str # NULL =>
               (heap = "live" /\ owned_ustr.str = [base |-> "buffer", off |-> 0])
        /\ (str # NULL /\ input = << >> /\ heap = "live") =>
               (owned_ustr.byte_len = 0 /\ buffer = << 0 >>)

C19_Witness ==
    /\ pc = "done"
    /\ str # NULL /\ input = << >>
    /\ heap = "live"
    /\ owned_ustr = [str |-> [base |-> "buffer", off |-> 0], byte_len |-> 0]

\* C20: after free_owned_utf8_string(o), o.str is NULL and o.byte_len is 0;
\* over any sequence of make_utf8_string_lossy, as_utf8_string and
\* free_owned_utf8_string calls on one owned buffer the allocation is
\* released exactly once: the first release frees it, a later release does
\* nothing, and as_utf8_string neither releases nor changes the owned buffer.
C20_ReleasedExactlyOnce ==
    [][/\ FreeOwnedUtf8String =>
           /\ owned_ustr' = [str |-> NULL, byte_len |-> 0]
           /\ IF heap = "live"
              THEN heap' = "freed" /\ releases' = releases + 1
              ELSE heap' = heap /\ releases' = releases
       /\ AsUtf8String =>
           /\ owned_ustr' = owned_ustr
           /\ heap' = heap /\ releases' = releases /\ buffer' = buffer
           /\ ustr' = [str |-> owned_ustr.str, byte_len |-> owned_ustr.byte_len]
       /\ releases' <= 1
       /\ (heap' = "freed") <=> (releases' = 1)
       /\ (free_calls' >= 1 /\ heap' \notin { "none", "failed" }) => releases' = 1
      ]_vars

C20_Witness ==
    /\ pc = "done"
    /\ ustr # None
    /\ free_calls = 2
    /\ releases = 1
    /\ heap = "freed"
    /\ owned_ustr = [str |-> NULL, byte_len |-> 0]

\* The bytes of the slice returned last.
SliceBytes ==
    SubSeq(input, slice.ret.str.off + 1, slice.ret.str.off + slice.ret.byte_len)

\* C21: a cursor made from a validated view, a slice that ends before the
\* buffer's terminator included, stays inside the view: its position never
\* exceeds the view's byte_len; utf8_char_count of a slice is the number of
\* characters in the slice's own byte range, and nth_utf8_char of a slice is
\* absent for every index at or beyond that count.
C21_CursorStaysInSlice ==
    (slice # None /\ slice.ret.str # NULL) =>
        /\ (iter # None) => iter.str.off <= slice.ret.str.off + slice.ret.byte_len
        /\ (ch # None) => ch.str.off + ch.byte_len <= slice.ret.str.off + slice.ret.byte_len
        /\ (count # None) => count.ret = NonContinuationCount(SliceBytes)
        /\ (nth # None /\ nth.char_index >= NonContinuationCount(SliceBytes))
               => nth.ret = [str |-> NULL, byte_len |-> 0]

\* A read on which C21 fails: the view C2 80 DF BF, its slice [0, 2) of one
\* character, counted as two.
C21_Witness ==
    /\ ustr # None /\ ustr.str # NULL
    /\ input = << 194, 128, 223, 191 >>
    /\ slice # None
    /\ slice.start_byte_index = 0 /\ slice.byte_len = 2
    /\ slice.ret = [str |-> [base |-> "input", off |-> 0], byte_len |-> 2]
    /\ count = [ret |-> 2]

\* What holds of C21: on a slice that ends at the buffer's terminator the
\* cursor, the count and nth stay inside the slice.
C21_HoldsOnSuffixSlices ==
    (/\ slice # None /\ slice.ret.str # NULL
     /\ slice.ret.str.off + slice.ret.byte_len = Len(input)) =>
        /\ (iter # None) => iter.str.off <= Len(input)
        /\ (ch # None) => ch.str.off + ch.byte_len <= Len(input)
        /\ (count # None) => count.ret = NonContinuationCount(SliceBytes)
        /\ (nth # None /\ nth.char_index >= NonContinuationCount(SliceBytes))
               => nth.ret = [str |-> NULL, byte_len |-> 0]

\* C22: for every start and length representable in size_t, pairs whose sum
\* exceeds SIZE_MAX included, slice_utf8_string returns the absent view or a
\* view that ends at min(start + len, L), the sum taken without wrap-around,
\* L = view.byte_len; so the byte_len returned never exceeds
\* L - min(start, L).
C22_SliceEndWithoutWrap ==
    (ustr # None /\ ustr.str # NULL /\ slice # None) =>
        LET L == ustr.byte_len
            s == Min(slice.start_byte_index, L)
            e == Min(slice.start_byte_index + slice.byte_len, L)
        IN  \/ slice.ret = [str |-> NULL, byte_len |-> 0]
            \/ /\ slice.ret.str.off + slice.ret.byte_len = e
               /\ slice.ret.byte_len <= L - s

\* A call on which C22 fails: the view C2 80 48, start 2, length SIZE_MAX - 1.
\* The sum wraps to 0 and the slice returned has byte_len SIZE_MAX - 1.
C22_Witness ==
    /\ ustr # None /\ ustr.str # NULL /\ slice # None
    /\ input = << 194, 128, 72 >>
    /\ slice.start_byte_index = 2
    /\ slice.byte_len = SIZE_MAX - 1
    /\ slice.ret = [str |-> [base |-> "input", off |-> 2], byte_len |-> SIZE_MAX - 1]

\* What holds of C22: a call whose sum is representable returns the absent
\* view or a view that ends at min(start + len, L).
C22_HoldsWithoutWrap ==
    (ustr # None /\ ustr.str # NULL /\ slice # None /\ SliceSumRepresentable) =>
        LET L == ustr.byte_len
            s == Min(slice.start_byte_index, L)
            e == Min(slice.start_byte_index + slice.byte_len, L)
        IN  \/ slice.ret = [str |-> NULL, byte_len |-> 0]
            \/ /\ slice.ret.str.off + slice.ret.byte_len = e
               /\ slice.ret.byte_len <= L - s

\* C23: in make_utf8_string_lossy the output block is never overrun: with n
\* the input length and a block of 3 * n + 1 bytes, at every iteration
\* buffer_offset <= 3 * offset, every copied span and every marker is
\* written at indexes below 3 * n, the terminator is written at an index
\* <= 3 * n, and the byte_len returned is the number of bytes written
\* before the terminator.
C23_BlockNeverOverrun ==
    [][(str # NULL) =>
        /\ (pc' = "loop") =>
            /\ len' = Len(input)
            /\ worst_case_size' = 3 * len' + 1
            /\ buffer_offset' <= 3 * offset'
            /\ Len(buffer') = buffer_offset'
        /\ LossyIter =>
            /\ buffer_offset < buffer_offset'
            /\ \A i \in buffer_offset..(buffer_offset' - 1) :
                   /\ i < 3 * len
                   /\ i < worst_case_size
                   /\ buffer'[i + 1] # 0
            /\ SubSeq(buffer', 1, buffer_offset) = buffer
        /\ LossyReturn =>
            /\ buffer_offset <= 3 * len
            /\ buffer_offset < worst_case_size
            /\ Len(buffer') = buffer_offset + 1
            /\ buffer'[buffer_offset + 1] = 0
            /\ SubSeq(buffer', 1, buffer_offset) = buffer
            /\ owned_ustr'.byte_len = buffer_offset
            /\ \A i \in 1..buffer_offset : buffer'[i] # 0
       ]_vars

\* The worst case: every byte rejected, the terminator at index 3 * n.
C23_Witness ==
    /\ pc = "done" /\ owned_ustr.str # NULL
    /\ input = << 255, 128 >>
    /\ worst_case_size = 7
    /\ owned_ustr.byte_len = 6
    /\ Len(buffer) = worst_case_size

\* The characters a cursor returns from it on, up to the terminator.
RECURSIVE Drain(_)
Drain(it) ==
    LET r == next_utf8_char(it)
    IN  IF r.ch.byte_len = 0 THEN << >> ELSE << r.ch >> \o Drain(r.iter)

\* The sum of the byte_len of the characters cs.
RECURSIVE TotalByteLen(_)
TotalByteLen(cs) ==
    IF cs = << >> THEN 0 ELSE Head(cs).byte_len + TotalByteLen(Tail(cs))

\* C24: on every view make_utf8_string accepted, the characters a drained
\* cursor returns are the spans the classifier accepted during validation:
\* the k-th character starts at the k-th offset at which validate_utf8
\* called the classifier, its byte_len is that call's next_offset minus the
\* offset, and the byte_len of all characters sum to the view's byte_len.
C24_CharactersAreAcceptedSpans ==
    [][/\ (MakeUtf8String /\ ustr'.str # NULL) =>
           LET calls == validate_calls(str, 0)
               chars == Drain(make_utf8_char_iter(ustr'))
           IN  /\ Len(chars) = Len(calls)
               /\ \A k \in 1..Len(calls) :
                      /\ calls[k].char_validity.valid
                      /\ chars[k].str = PtrAdd(ustr'.str, calls[k].offset)
                      /\ chars[k].byte_len =
                             calls[k].char_validity.next_offset - calls[k].offset
               /\ TotalByteLen(chars) = ustr'.byte_len
       /\ (NextUtf8Char /\ iter.str # NULL /\ CharAt(iter.str, 0) # 0) =>
           \E k \in 1..Len(validate_calls(str, 0)) :
               LET call == validate_calls(str, 0)[k]
               IN  /\ ch'.str = PtrAdd(str, call.offset)
                   /\ ch'.byte_len = call.char_validity.next_offset - call.offset
                   /\ iter'.str = PtrAdd(str, call.char_validity.next_offset)
      ]_vars

C24_Witness ==
    /\ ustr # None /\ ustr.str # NULL
    /\ input = << 223, 191, 240, 144, 128, 128 >>
    /\ iter # None /\ ch # None
    /\ ch = [str |-> [base |-> "input", off |-> 2], byte_len |-> 4]
    /\ iter.str.off = ustr.byte_len
    /\ Len(validate_calls(str, 0)) = 2

\* The classifier, run from offset off of the caller's string, accepts span
\* after span and the last span ends exactly at offset end.
RECURSIVE ClassifierAcceptsRange(_, _)
ClassifierAcceptsRange(off, end) ==
    IF off >= end THEN off = end
    ELSE LET cv == validate_utf8_char(str, off)
         IN  cv.valid /\ ClassifierAcceptsRange(cv.next_offset, end)

\* The slice returned last lies in the view and is valid UTF-8 by itself.
SliceIsValidUtf8 ==
    LET start == slice.ret.str.off
        end == slice.ret.str.off + slice.ret.byte_len
    IN  /\ start <= end
        /\ end <= ustr.byte_len
        /\ ClassifierAcceptsRange(start, end)
        /\ ConcatOfForms(SubSeq(input, start + 1, end))

\* C25: every view that slice_utf8_string returns as non-absent from a view
\* make_utf8_string accepted is itself valid UTF-8: the classifier run over
\* exactly the bytes [start, end) of the slice accepts every span and ends
\* exactly at end, so no character is split at either end of the slice.
C25_SliceIsValidUtf8 ==
    (ustr # None /\ ustr.str # NULL /\ slice # None /\ slice.ret.str # NULL)
        => SliceIsValidUtf8

\* A call on which C25 fails: the view 48 E0 A0 80, start 1, length SIZE_MAX.
\* The slice returned has byte_len SIZE_MAX and runs far past the view.
C25_Witness ==
    /\ ustr # None /\ ustr.str # NULL /\ slice # None
    /\ input = << 72, 224, 160, 128 >>
    /\ slice.start_byte_index = 1
    /\ slice.byte_len = SIZE_MAX
    /\ slice.ret = [str |-> [base |-> "input", off |-> 1], byte_len |-> SIZE_MAX]

\* What holds of C25: the slice of a call whose start + length is
\* representable in size_t is valid UTF-8.
C25_HoldsWithoutWrap ==
    (/\ ustr # None /\ ustr.str # NULL /\ slice # None /\ slice.ret.str # NULL
     /\ SliceSumRepresentable) => SliceIsValidUtf8

\* The fewest bytes a form needs for the value v.
MinimalLength(v) ==
    IF v < 128 THEN 1 ELSE IF v < 2048 THEN 2 ELSE IF v < 65536 THEN 3 ELSE 4

\* The encoding of the value v in n bytes.
Encode(v, n) ==
    CASE n = 1 -> << v >>
      [] n = 2 -> << 192 + (v \div 64), 128 + (v % 64) >>
      [] n = 3 -> << 224 + (v \div 4096), 128 + ((v \div 64) % 64), 128 + (v % 64) >>
      [] n = 4 -> << 240 + (v \div 262144), 128 + ((v \div 4096) % 64),
                     128 + ((v \div 64) % 64), 128 + (v % 64) >>

\* Length of the lead-and-continuation pattern s starts with, overlong or
\* not; 0 when s starts with none.
PatternLength(s) ==
    LET b0 == ByteOf(s, 0)
    IN  IF b0 \in 1..127 THEN 1
        ELSE IF b0 \in 192..223 /\ IsContinuation(ByteOf(s, 1)) THEN 2
        ELSE IF /\ b0 \in 224..239
                /\ IsContinuation(ByteOf(s, 1)) /\ IsContinuation(ByteOf(s, 2)) THEN 3
        ELSE IF /\ b0 \in 240..247
                /\ IsContinuation(ByteOf(s, 1)) /\ IsContinuation(ByteOf(s, 2))
                /\ IsContinuation(ByteOf(s, 3)) THEN 4
        ELSE 0

\* s starts with a pattern longer than its value needs: an overlong encoding.
StartsOverlong(s) ==
    /\ PatternLength(s) > 1
    /\ PatternLength(s) > MinimalLength(PayloadValue(SubSeq(s, 1, PatternLength(s))))

\* C26: unicode_code_point is injective on the encodings the classifier
\* accepts: an accepted encoding of length 2, 3 or 4 decodes to a value
\* >= 0x80, >= 0x800 or >= 0x10000, so its bytes are the one shortest
\* encoding of its value and two accepted encodings with different bytes
\* decode to different values; an overlong encoding, which decodes to the
\* value of a shorter one, is rejected by validate_utf8 with valid_upto = 0.
C26_CodePointInjective ==
    /\ (code_point # None /\ code_point.uchar.byte_len \in 1..4) =>
        LET b == BytesOf(code_point.uchar)
        IN  /\ Len(b) = MinimalLength(code_point.ret)
            /\ b = Encode(code_point.ret, Len(b))
            /\ \A k \in 1..Len(Drain(make_utf8_char_iter(ustr))) :
                   LET c == Drain(make_utf8_char_iter(ustr))[k]
                   IN  (BytesOf(c) # b) => (unicode_code_point(c) # code_point.ret)
    /\ (ustr # None /\ str # NULL /\ StartsOverlong(input)) =>
        /\ ustr = [str |-> NULL, byte_len |-> 0]
        /\ validate_utf8(str) = [valid |-> FALSE, valid_upto |-> 0]

\* EF BF BF decoded to 0xFFFF in a view that also holds F7 BF BF BF.
C26_Witness ==
    /\ ustr # None /\ ustr.str # NULL
    /\ input = << 247, 191, 191, 191, 239, 191, 191 >>
    /\ code_point # None
    /\ BytesOf(code_point.uchar) = << 239, 191, 191 >>
    /\ code_point.ret = 65535

====
